---- MODULE Spec2Model ----
(***************************************************************************)
(* Masterblog API: the Flask backend (backend_app.py), the post manager    *)
(* (blogmanager.py) and the JSON file storage (storage.py).                *)
(*                                                                         *)
(* One action per HTTP endpoint.  Every request is handled synchronously   *)
(* as load - modify - save against the single JSON file, so one action is  *)
(* one whole request.  An exception that escapes a handler is answered by  *)
(* Flask with status 500.                                                  *)
(***************************************************************************)
EXTENDS Integers, Sequences, FiniteSets, TLC

VARIABLES
    exists,     \* the JSON file is on disk (storage.py: open(self.path))
    posts,      \* the list in the JSON file, <<>> while the file is missing
    last,       \* the last response sent: endpoint, status, posts in the body
    searched,   \* history: the request.args of the last search
    clock,      \* the instant datetime.now() returns next
    maxIssued,  \* history: the largest id add_post has assigned so far
    submitted   \* history: id -> the title, content, author a client last
                \* submitted for the post created under that id and not deleted

vars == <<exists, posts, last, searched, clock, maxIssued, submitted>>

-----------------------------------------------------------------------------
(* Bounds of the model *)

\* The instants the clock runs through: each post written (created or
\* updated) is stamped with its own instant, so this also bounds the writes.
MaxClock == 3

-----------------------------------------------------------------------------
(* Values *)

\* A string is a sequence of characters from "a", "A", "b", "B".

\* str.lower() on one character
LowerChar(c) == IF c = "A" THEN "a" ELSE IF c = "B" THEN "b" ELSE c

\* str.lower()
Lower(s) == [i \in 1..Len(s) |-> LowerChar(s[i])]

\* Python's `a in b` on strings
IsSubstring(a, b) ==
    \E i \in 0..(Len(b) - Len(a)) : SubSeq(b, i + 1, i + Len(a)) = a

\* BlogManager.REQUIRED_FIELDS
REQUIRED_FIELDS == {"title", "content", "author"}

\* datetime.now(timezone.utc).isoformat() taken at instant t
IsoNow(t) == [iso |-> TRUE, t |-> t]

\* A value a client puts under a date key: a string that is no ISO 8601 date
ClientBad == [iso |-> FALSE, t |-> 0]

\* dict.get(k, default)
Get(d, k, default) == IF k \in DOMAIN d THEN d[k] ELSE default

EmptyDict == [k \in {} |-> <<>>]

-----------------------------------------------------------------------------
(* storage.py: the file is [exists, posts] *)

\* Storage.load_posts: the list in the file; a missing file reads as the
\* empty list
load_posts(file) == IF file.exists THEN file.posts ELSE <<>>

\* Storage.save_posts: the whole list replaces the file's content
save_posts(ps) == [exists |-> TRUE, posts |-> ps]

\* The file after load_posts, which writes [] to a missing file
Loaded(file) == save_posts(load_posts(file))

-----------------------------------------------------------------------------
(* blogmanager.py *)

SeqMax(S) == CHOOSE m \in S : \A x \in S : x <= m

IdsOf(ps) == {ps[i]["id"] : i \in 1..Len(ps)}

\* _generate_id with a fault: the number of posts plus one
_generate_id_by_count(ps) == Len(ps) + 1

\* _generate_id with a fault: the largest id, not incremented
_generate_id_no_increment(ps) == IF ps # <<>> THEN SeqMax(IdsOf(ps)) ELSE 1

\* BlogManager._generate_id
_generate_id(ps) == IF ps # <<>> THEN SeqMax(IdsOf(ps)) + 1 ELSE 1

\* datetime.fromisoformat raises ValueError on a string that is no ISO date
fromisoformat_raises(iso_string) == ~iso_string.iso

\* BlogManager._format_datetime: the 'YYYY-MM-DD' day of an ISO string; the
\* time of day is dropped (two instants to a day)
_format_datetime(iso_string) == [date |-> (iso_string.t + 1) \div 2]

\* The display formatting loop of get_all_posts and search_posts raises on
\* the first date that does not parse
FormatRaises(ps) ==
    \E i \in 1..Len(ps) :
        \/ fromisoformat_raises(Get(ps[i], "created", ClientBad))
        \/ "updated" \in DOMAIN ps[i] /\ fromisoformat_raises(ps[i]["updated"])

FormatPost(post) ==
    [k \in DOMAIN post |->
        IF k \in {"created", "updated"} THEN _format_datetime(post[k]) ELSE post[k]]

FormatDates(ps) == [i \in 1..Len(ps) |-> FormatPost(ps[i])]

\* BlogManager.get_all_posts(), as the endpoint calls it: no sort
get_all_posts(file) ==
    LET ps == load_posts(file) IN
    IF FormatRaises(ps)
    THEN [file |-> Loaded(file), raises |-> TRUE, posts |-> <<>>]
    ELSE [file |-> Loaded(file), raises |-> FALSE, posts |-> FormatDates(ps)]

\* BlogManager.get_post_by_id(post_id, posts): the first post with the id,
\* given by its index in the list; 0 stands for None
get_post_by_id(post_id, ps) ==
    IF \E i \in 1..Len(ps) : ps[i]["id"] = post_id
    THEN CHOOSE i \in 1..Len(ps) :
            /\ ps[i]["id"] = post_id
            /\ \A j \in 1..(i - 1) : ps[j]["id"] # post_id
    ELSE 0

\* validate_data with a fault: `field not in data` for `not data.get(field)`
validate_data_absent_only(data) == {f \in REQUIRED_FIELDS : f \notin DOMAIN data}

\* BlogManager.validate_data: the required fields that are missing or falsy;
\* it returns an error when there is one
validate_data(data) == {f \in REQUIRED_FIELDS : Get(data, f, <<>>) = <<>>}

\* BlogManager.add_post: data['id'] and data['created'] are set on the
\* payload dict itself, every other key of the payload stays in it
NewPost(data, ps, now) ==
    [k \in DOMAIN data \cup {"id", "created"} |->
        IF k = "id" THEN _generate_id(ps)
        ELSE IF k = "created" THEN IsoNow(now)
        ELSE data[k]]

\* BlogManager.add_post
add_post(file, data, now) ==
    LET ps   == load_posts(file)
        post == NewPost(data, ps, now) IN
    [file |-> save_posts(Append(ps, post)), post |-> post]

RemoveAt(ps, i) == SubSeq(ps, 1, i - 1) \o SubSeq(ps, i + 1, Len(ps))

\* list.remove with a fault: list.pop() in its place
list_pop(ps, post) == SubSeq(ps, 1, Len(ps) - 1)

\* list.remove(post): the first element equal to post is removed
list_remove(ps, post) ==
    RemoveAt(ps, CHOOSE i \in 1..Len(ps) :
                    ps[i] = post /\ \A j \in 1..(i - 1) : ps[j] # post)

\* BlogManager.delete_post
delete_post(file, post_id) ==
    LET ps == load_posts(file)
        i  == get_post_by_id(post_id, ps) IN
    IF i # 0
    THEN [file |-> save_posts(list_remove(ps, ps[i])), deleted |-> TRUE]
    ELSE [file |-> Loaded(file), deleted |-> FALSE]

\* UpdatedPost with a fault: the update stamps `created` too
UpdatedPostRestamped(post, data, now) ==
    [k \in DOMAIN post \cup (DOMAIN data \cap REQUIRED_FIELDS) \cup {"updated"} |->
        IF k \in {"updated", "created"} THEN IsoNow(now)
        ELSE IF k \in DOMAIN data /\ k \in REQUIRED_FIELDS THEN data[k]
        ELSE post[k]]

\* BlogManager.update_post, the loop over data.items() and the timestamp
UpdatedPost(post, data, now) ==
    [k \in DOMAIN post \cup (DOMAIN data \cap REQUIRED_FIELDS) \cup {"updated"} |->
        IF k = "updated" THEN IsoNow(now)
        ELSE IF k \in DOMAIN data /\ k \in REQUIRED_FIELDS THEN data[k]
        ELSE post[k]]

\* update_post with a fault: data.items() is read before the post is looked up
update_post_items_first(file, post_id, payload, now) ==
    LET ps == load_posts(file)
        i  == get_post_by_id(post_id, ps) IN
    IF payload.kind # "object"
    THEN [file |-> Loaded(file), raises |-> TRUE, post |-> <<>>]
    ELSE IF i = 0
    THEN [file |-> Loaded(file), raises |-> FALSE, post |-> <<>>]
    ELSE [file |-> save_posts([ps EXCEPT ![i] = UpdatedPost(ps[i], payload.d, now)]),
          raises |-> FALSE,
          post |-> <<UpdatedPost(ps[i], payload.d, now)>>]

\* BlogManager.update_post: `post` is <<>> for None; data.items() raises
\* AttributeError when the payload is no dict, and is reached only `if post`
update_post(file, post_id, payload, now) ==
    LET ps == load_posts(file)
        i  == get_post_by_id(post_id, ps) IN
    IF i = 0
    THEN [file |-> Loaded(file), raises |-> FALSE, post |-> <<>>]
    ELSE IF payload.kind # "object"
    THEN [file |-> Loaded(file), raises |-> TRUE, post |-> <<>>]
    ELSE [file |-> save_posts([ps EXCEPT ![i] = UpdatedPost(ps[i], payload.d, now)]),
          raises |-> FALSE,
          post |-> <<UpdatedPost(ps[i], payload.d, now)>>]

\* BlogManager._matches_query
_matches_query(post, query) ==
    \A field \in DOMAIN query :
        field \in REQUIRED_FIELDS =>
            IsSubstring(Lower(query[field]), Lower(Get(post, field, <<>>)))

\* BlogManager.search_posts
search_posts(file, query) ==
    LET filtered_posts ==
            SelectSeq(load_posts(file), LAMBDA post : _matches_query(post, query)) IN
    IF FormatRaises(filtered_posts)
    THEN [file |-> Loaded(file), raises |-> TRUE, posts |-> <<>>]
    ELSE [file |-> Loaded(file), raises |-> FALSE, posts |-> FormatDates(filtered_posts)]

-----------------------------------------------------------------------------
(* Requests *)

\* request.get_json(): a JSON object (a dict), or a JSON value that is no
\* object: null (falsy), a non-empty array (truthy)
ObjectPayload(d) == [kind |-> "object", d |-> d]
NullPayload == [kind |-> "null", d |-> EmptyDict]
ArrayPayload == [kind |-> "array", d |-> EmptyDict]

\* Python truthiness of the parsed payload (`if not new_post`)
Truthy(p) == IF p.kind = "object" THEN DOMAIN p.d # {} ELSE p.kind = "array"

\* The strings clients send as title, content and author: for each field
\* the empty string and one other
FieldVals ==
    [f \in REQUIRED_FIELDS |->
        IF f = "title" THEN {<<>>, <<"A", "b">>}
        ELSE IF f = "content" THEN {<<>>, <<"b">>}
        ELSE {<<>>, <<"a">>}]

\* Dicts over some of the required fields
FieldDicts ==
    UNION {{d \in [K -> UNION {FieldVals[f] : f \in REQUIRED_FIELDS}] :
                \A f \in K : d[f] \in FieldVals[f]} : K \in SUBSET REQUIRED_FIELDS}

\* The dict with every required field non-empty
CompleteFields ==
    [f \in REQUIRED_FIELDS |-> CHOOSE v \in FieldVals[f] : v # <<>>]

\* Keys a client may add to a payload beside the required fields
ClientKeys ==
    ("id" :> 0) @@ ("created" :> ClientBad) @@ ("updated" :> ClientBad)
        @@ ("tag" :> <<"b">>)

Payloads ==
    {ObjectPayload(d) : d \in FieldDicts}
        \cup {ObjectPayload(d @@ ClientKeys) : d \in {EmptyDict, CompleteFields}}
        \cup {NullPayload, ArrayPayload}

\* request.args of a search: criteria on a required field, a foreign key
Queries ==
    { EmptyDict,
      ("title" :> <<"a", "B">>),
      ("title" :> <<"b", "a">>),
      ("page" :> <<"b", "a">>),
      ("title" :> <<"a", "B">>) @@ ("page" :> <<"b", "a">>) }

\* The <int:post_id> of a URL: add_post assigns no id above the number of
\* posts written
PostIds == 1..MaxClock

-----------------------------------------------------------------------------
(* backend_app.py: each route function as the file it leaves and the       *)
(* response it sends.  The route functions add_post, delete_post,          *)
(* update_post and search_posts bear the names of the manager's methods    *)
(* they call; here they are app_add_post, ...                              *)

Result(file, status, body) == [file |-> file, status |-> status, body |-> body]

\* GET /api/posts: get_posts
app_get_posts(file) ==
    LET got == get_all_posts(file) IN
    IF got.raises
    THEN Result(got.file, 500, <<>>)
    ELSE Result(got.file, 200, got.posts)

\* POST /api/posts: add_post.  validate_data calls data.get, which raises
\* AttributeError when the payload is no dict
app_add_post(file, new_post, now) ==
    IF ~Truthy(new_post) THEN Result(file, 400, <<>>)
    ELSE IF new_post.kind # "object" THEN Result(file, 500, <<>>)
    ELSE IF validate_data(new_post.d) # {} THEN Result(file, 400, <<>>)
    ELSE LET created_post == add_post(file, new_post.d, now) IN
         Result(created_post.file, 201, <<created_post.post>>)

\* DELETE /api/posts/<id>: delete_post
app_delete_post(file, post_id) ==
    LET success == delete_post(file, post_id) IN
    IF success.deleted
    THEN Result(success.file, 200, <<>>)
    ELSE Result(success.file, 404, <<>>)

\* PUT /api/posts/<id>: update_post
app_update_post(file, post_id, data, now) ==
    LET updated_post == update_post(file, post_id, data, now) IN
    IF updated_post.raises THEN Result(updated_post.file, 500, <<>>)
    ELSE IF updated_post.post # <<>>
    THEN Result(updated_post.file, 200, updated_post.post)
    ELSE Result(updated_post.file, 404, <<>>)

\* GET /api/posts/search, the dict comprehension over request.args: its
\* condition reads BlogManager.FIELDS, which the class does not define, so it
\* raises AttributeError as soon as there is one argument to test
QueryFilterRaises(args) == DOMAIN args # {}

\* GET /api/posts/search: search_posts.  When the comprehension does not
\* raise there was no argument, and the query it builds is the empty args
app_search_posts(file, args) ==
    IF QueryFilterRaises(args) THEN Result(file, 500, <<>>)
    ELSE LET results == search_posts(file, args) IN
         IF results.raises
         THEN Result(results.file, 500, <<>>)
         ELSE Result(results.file, 200, results.posts)

-----------------------------------------------------------------------------
(* The state machine: one action per request, handled from load to save *)

File == [exists |-> exists, posts |-> posts]

\* The title, content and author of a payload dict
Fields(data) == [k \in REQUIRED_FIELDS \cap DOMAIN data |-> data[k]]

Respond(op, r) ==
    /\ op # "SEARCH" => searched' = EmptyDict
    /\ exists' = r.file.exists
    /\ posts' = r.file.posts
    /\ last' = [op |-> op, status |-> r.status, body |-> r.body]

\* src/backend/storage/data: no blog.json yet
Init ==
    /\ exists = FALSE
    /\ posts = <<>>
    /\ last = [op |-> "none", status |-> 0, body |-> <<>>]
    /\ searched = EmptyDict
    /\ clock = 1
    /\ maxIssued = 0
    /\ submitted = EmptyDict

\* datetime.now(): time passes between two requests that read the clock
Tick(stamped) ==
    /\ stamped => clock <= MaxClock
    /\ clock' = IF stamped THEN clock + 1 ELSE clock

GetPosts ==
    /\ Respond("GET", app_get_posts(File))
    /\ UNCHANGED <<clock, maxIssued, submitted>>

AddPost(new_post) ==
    LET r == app_add_post(File, new_post, clock) IN
    /\ Tick(r.status = 201)
    /\ Respond("POST", r)
    /\ IF r.status = 201
       THEN /\ maxIssued' = IF r.body[1]["id"] > maxIssued
                            THEN r.body[1]["id"] ELSE maxIssued
            /\ submitted' = (r.body[1]["id"] :> Fields(new_post.d)) @@ submitted
       ELSE UNCHANGED <<maxIssued, submitted>>

DeletePost(post_id) ==
    LET r == app_delete_post(File, post_id) IN
    /\ Respond("DELETE", r)
    /\ submitted' = IF r.status = 200
                    THEN [i \in DOMAIN submitted \ {post_id} |-> submitted[i]]
                    ELSE submitted
    /\ UNCHANGED <<clock, maxIssued>>

UpdatePost(post_id, data) ==
    LET r == app_update_post(File, post_id, data, clock) IN
    /\ Tick(r.status = 200)
    /\ Respond("PUT", r)
    /\ submitted' = IF r.status = 200 /\ post_id \in DOMAIN submitted
                    THEN [submitted EXCEPT
                            ![post_id] = Fields(data.d) @@ submitted[post_id]]
                    ELSE submitted
    /\ UNCHANGED maxIssued

SearchPosts(args) ==
    /\ Respond("SEARCH", app_search_posts(File, args))
    /\ searched' = args
    /\ UNCHANGED <<clock, maxIssued, submitted>>

Next ==
    \/ GetPosts
    \/ \E new_post \in Payloads : AddPost(new_post)
    \/ \E post_id \in PostIds : DeletePost(post_id)
    \/ \E post_id \in PostIds, data \in Payloads : UpdatePost(post_id, data)
    \/ \E args \in Queries : SearchPosts(args)

Spec == Init /\ [][Next]_vars

-----------------------------------------------------------------------------
(* Properties *)

\* The step creates a post: POST /api/posts answered 201
Creates == last'.op = "POST" /\ last'.status = 201 /\ clock' # clock

\* The post a 201 or a PUT's 200 carries in its body
BodyPost == last.body[1]

\* ps with the element at index k taken out, the others in order
Without(ps, k) == [j \in 1..(Len(ps) - 1) |-> IF j < k THEN ps[j] ELSE ps[j + 1]]

\* C1: after any sequence of add_post, update_post and delete_post calls on
\* an initially empty store, no two posts of the persisted list have the
\* same id.
C1_UniqueIds ==
    \A i, j \in 1..Len(posts) : i # j => posts[i]["id"] # posts[j]["id"]

\* Two posts are stored, the second created after an earlier post was deleted
C1_Witness ==
    /\ last.op = "POST" /\ last.status = 201
    /\ Len(posts) >= 2
    /\ maxIssued > Len(posts)

\* C2, as claimed: the id given to a newly created post is strictly greater
\* than the id given to every post created earlier, so no id is assigned
\* twice.
C2_NeverReassigned ==
    [][Creates => last'.body[1]["id"] > maxIssued]_vars

\* C2, amended: the id given to a newly created post is strictly greater than
\* the id of every post in the store at that moment, and is 1 when the store
\* is empty.
C2_AboveStoredIds ==
    [][Creates =>
        /\ \A i \in IdsOf(posts) : last'.body[1]["id"] > i
        /\ posts = <<>> => last'.body[1]["id"] = 1]_vars

\* A post was created under an id below one assigned before
C2_Witness ==
    /\ last.op = "POST" /\ last.status = 201
    /\ BodyPost["id"] < maxIssued

\* C3: once POST /api/posts answered 201 with id i, every GET /api/posts
\* before a DELETE of i answers with a list holding a post of id i that
\* carries the title, content and author last submitted for it.
C3_CreatedPostListed ==
    last.op = "GET" =>
        /\ last.status = 200
        /\ \A i \in DOMAIN submitted :
            \E k \in 1..Len(last.body) :
                /\ last.body[k]["id"] = i
                /\ \A f \in DOMAIN submitted[i] :
                    f \in DOMAIN last.body[k] /\ last.body[k][f] = submitted[i][f]

\* The payloads of a PUT that are JSON objects
ObjectPayloads == {p \in Payloads : p.kind = "object"}

\* update_post(id of posts[k], p) leaves the length of the list, every other
\* post and the place of the post alone
OthersKept(k, r) ==
    /\ Len(r.file.posts) = Len(posts)
    /\ \A j \in 1..Len(posts) : j # k => r.file.posts[j] = posts[j]

\* Each required field of the payload has the payload's value in post `new`
PayloadTaken(new, d) ==
    \A f \in REQUIRED_FIELDS \cap DOMAIN d : f \in DOMAIN new /\ new[f] = d[f]

\* Apart from the required fields of the payload and the keys in `except`,
\* post `new` has the keys and values of post `old`
RestKept(old, new, d, except) ==
    \A key \in (DOMAIN old \cup DOMAIN new) \ ((REQUIRED_FIELDS \cap DOMAIN d) \cup except) :
        key \in DOMAIN old /\ key \in DOMAIN new /\ new[key] = old[key]

\* C4, as claimed: update_post on an existing id gives each of title, content,
\* author present in the payload the payload's value, keeps every field that
\* is not in the payload, ignores other payload keys, and leaves every other
\* post and the position of the post unchanged.
C4_OnlyProvidedFields ==
    \A k \in 1..Len(posts), p \in ObjectPayloads :
        LET r == update_post(File, posts[k]["id"], p, clock) IN
        /\ OthersKept(k, r)
        /\ PayloadTaken(r.file.posts[k], p.d)
        /\ RestKept(posts[k], r.file.posts[k], p.d, {})

\* C4, amended: as claimed for every field but `updated`, which update_post
\* sets to the time of the update whatever the payload holds; a payload that
\* is no JSON object changes nothing.
C4_OnlyProvidedFieldsAndUpdated ==
    \A k \in 1..Len(posts), p \in Payloads :
        LET r == update_post(File, posts[k]["id"], p, clock) IN
        IF p.kind = "object"
        THEN /\ OthersKept(k, r)
             /\ PayloadTaken(r.file.posts[k], p.d)
             /\ RestKept(posts[k], r.file.posts[k], p.d, {"updated"})
             /\ "updated" \in DOMAIN r.file.posts[k]
             /\ r.file.posts[k]["updated"] = IsoNow(clock)
        ELSE r.file.posts = posts

\* A PUT has emptied the title of one of two stored posts and kept its
\* content
C4_Witness ==
    /\ last.op = "PUT" /\ last.status = 200
    /\ Len(posts) = 2
    /\ BodyPost["title"] = <<>> /\ BodyPost["content"] # <<>>
    /\ BodyPost["created"] # BodyPost["updated"]

\* C5: delete_post on an id present in the store answers 200 and leaves the
\* previous list with that one post removed, the others unchanged and in
\* their order; the id is in no later list until a post is created.
C5_DeleteRemoves ==
    /\ [](\A k \in 1..Len(posts) :
            LET r == app_delete_post(File, posts[k]["id"]) IN
            /\ r.status = 200
            /\ r.file.posts = Without(posts, k))
    /\ [][\A i \in PostIds :
            (i \notin IdsOf(posts) /\ ~Creates) => i \notin IdsOf(posts')]_vars

\* The middle one of three posts has been deleted
C5_Witness ==
    /\ last.op = "DELETE" /\ last.status = 200
    /\ Len(posts) = 2
    /\ posts[1]["id"] = 1 /\ posts[2]["id"] = 3

\* C6: for every store and every id no stored post has, DELETE and PUT (with
\* any payload) answer 404 and leave the persisted list unchanged.
C6_UnknownId404 ==
    \A i \in PostIds \ IdsOf(posts) :
        /\ app_delete_post(File, i).status = 404
        /\ app_delete_post(File, i).file.posts = posts
        /\ \A p \in Payloads :
            /\ app_update_post(File, i, p, clock).status = 404
            /\ app_update_post(File, i, p, clock).file.posts = posts

\* A PUT on an id that is not in a non-empty store was answered 404
C6_Witness ==
    /\ last.op = "PUT" /\ last.status = 404
    /\ posts # <<>>

\* A payload with title, content and author all present and non-empty
Complete(p) ==
    /\ p.kind = "object"
    /\ \A f \in REQUIRED_FIELDS : f \in DOMAIN p.d /\ p.d[f] # <<>>

Matching(ps, args) ==
    SelectSeq(ps, LAMBDA post :
        \A f \in REQUIRED_FIELDS \cap DOMAIN args :
            /\ f \in DOMAIN post
            /\ IsSubstring(Lower(args[f]), Lower(post[f])))

\* C8: GET /api/posts/search answers with exactly the stored posts that match
\* every title, content, author criterion of the query (case-insensitive
\* substring), in stored order; other query keys are ignored, an empty query
\* returns all posts, and the persisted list is unchanged.
C8_SearchMatches ==
    /\ last.op = "SEARCH" =>
        /\ last.status = 200
        /\ Len(last.body) = Len(Matching(posts, searched))
        /\ \A k \in 1..Len(last.body) :
            /\ last.body[k]["id"] = Matching(posts, searched)[k]["id"]
            /\ \A f \in REQUIRED_FIELDS : last.body[k][f] = Matching(posts, searched)[k][f]
    /\ \A q \in Queries : app_search_posts(File, q).file.posts = posts

\* C9: every request ends with one of the statuses 200, 201, 400, 404.
C9_NoServerError ==
    last.op # "none" => last.status \in {200, 201, 400, 404}

\* The keys of a post in the data model
ModelKeys == REQUIRED_FIELDS \cup {"id", "created", "updated"}

\* The instants add_post and update_post have stamped so far
Stamps == {IsoNow(t) : t \in 1..(clock - 1)}

\* C10: every persisted post has the shape of the data model, its id is the
\* one _generate_id chose, created is the timestamp taken at creation, and
\* updated is absent or a timestamp taken by update_post: nothing a client
\* supplied is stored in id, created or updated.
C10_ServerControlledFields ==
    \A k \in 1..Len(posts) :
        /\ DOMAIN posts[k] \subseteq ModelKeys
        /\ REQUIRED_FIELDS \cup {"id", "created"} \subseteq DOMAIN posts[k]
        /\ posts[k]["id"] \in 1..maxIssued
        /\ posts[k]["created"] \in Stamps
        /\ "updated" \in DOMAIN posts[k] => posts[k]["updated"] \in Stamps

====
